---------------------------- MODULE Spec2Model ----------------------------
(***************************************************************************)
(* zstd-jsonl-filter (src/src/main.rs): the dispatcher of main, one       *)
(* read_lines task per discovered .zst file, and the progress updater.     *)
(*                                                                         *)
(* Scaling.  A byte is a one-character string, a line a sequence of bytes. *)
(* The 500 MB publish interval of read_lines is scaled to UpdateInterval   *)
(* bytes, and the 64-bit words of the progress updater to U64Bits bits.    *)
(* A zstd frame is its magic, its payload and an end mark: the payload's   *)
(* compression is not modelled, the frame structure is.                    *)
(* std::io::BufWriter is transparent: a byte handed to the writer is a     *)
(* byte of the file (the writer is flushed when read_lines drops it).      *)
(***************************************************************************)
EXTENDS Integers, Sequences, FiniteSets, TLC

\* ------------------------------------------------------------- bounds
MaxLines == 3
MaxBuffer == 2
MaxFileSize == 2
MaxReads == 2
MaxEstimate == 5
MaxCpus == 3
MaxThreads == 1

\* -------------------------------------------------- program constants
\* fallback_buffer of set_config
fallback_buffer == 4096
\* the publish interval of read_lines (500000000 in the source), scaled
UpdateInterval == 1
\* the width of u64 (64 in the source), scaled
U64Bits == 8

\* fallback_compression_level of set_config
fallback_compression_level == 0
\* zstd::compression_level_range(): ZSTD_minCLevel()..=ZSTD_maxCLevel()
ZstdMinLevel == -131072
ZstdMaxLevel == 22

U64Modulus == 2 ^ U64Bits
U64Max == U64Modulus - 1

Sep == "\n"
\* the decoded lines an input may hold
LineSet == {<<>>, <<"a">>, <<"x">>, <<"a", "x">>}

ZstdMagic == "28B52FFD"
ZstdEnd == "frame-end"

FileExtensions == {"", "out"}
\* config.input and config.output, and config.suffix as a sequence of
\* name parts (<<>> is the empty suffix)
Dirs == {"./", "out/"}
Suffixes == {<<>>, <<"_filtered">>}

\* ------------------------------------------------------ pure functions

\* Regex::new(pattern).is_ok(): of the patterns of the model, "(" is the one
\* that does not compile.
compiles(pattern) == pattern # "("

\* A validation that accepts every pattern.
validate_nothing(pattern) == TRUE

\* validate_regex, lines 689-691
validate_regex(pattern) == compiles(pattern)

\* The configured level, whatever it is.
level_unclamped(level) == level

\* set_config, lines 820-825: the level, or 0 when it is out of range.
effective_level(level) ==
    IF level \in ZstdMinLevel..ZstdMaxLevel THEN level ELSE 0

\* the levels a user may configure: the ends of the range, one beyond each,
\* the fallback and zstd's default
Levels == {ZstdMinLevel - 1, ZstdMinLevel, fallback_compression_level, 3,
           ZstdMaxLevel, ZstdMaxLevel + 1}

\* Regex::is_match for the two patterns of the model: "^" matches every
\* line (the fallback pattern), "x" every line that contains an x.
is_match(pattern, line) ==
    \/ pattern = "^"
    \/ \E i \in 1..Len(line) : line[i] = "x"

RECURSIVE Concat(_)
Concat(ss) == IF ss = <<>> THEN <<>> ELSE Head(ss) \o Concat(Tail(ss))

\* The kept lines of a sequence of decoded lines, in encounter order.
Kept(pattern, lines) == SelectSeq(lines, LAMBDA l : is_match(pattern, l))

\* L1 + sep + L2 + sep + ... + Ln
RECURSIVE Joined(_)
Joined(ls) ==
    IF ls = <<>> THEN <<>>
    ELSE IF Len(ls) = 1 THEN ls[1]
    ELSE ls[1] \o <<Sep>> \o Joined(Tail(ls))

RECURSIVE SumLen(_)
SumLen(ls) == IF ls = <<>> THEN 0 ELSE Len(Head(ls)) + SumLen(Tail(ls))

\* zstd::stream::write::Encoder: new, write_all, finish give one frame.
EncodeFrame(data) == <<ZstdMagic>> \o data \o <<ZstdEnd>>

\* What a zstd decoder reads back from a concatenation of frames.
ZstdDecode(bytes) == SelectSeq(bytes, LAMBDA b : b \notin {ZstdMagic, ZstdEnd})

\* The line without a separator.
LineBytesNoSep(last_line) == last_line

\* format!("{}\n", last_line).into_bytes()
LineBytes(last_line) == last_line \o <<Sep>>

\* The pending line promoted without its separator.
PromoteNoPending(buffer, last_matching_line) == buffer \o Concat(last_matching_line)

\* buffer.extend_from_slice of the pending line, when there is one.
\* last_matching_line is an Option: <<>> is None, <<l>> is Some(l).
PromotePending(buffer, last_matching_line) ==
    IF last_matching_line # <<>>
    THEN buffer \o LineBytes(last_matching_line[1])
    ELSE buffer

\* The closure write_to_output with Some(writer): the bytes appended.
write_to_output(content, data, zstd) ==
    IF zstd THEN content \o EncodeFrame(data) ELSE content \o data

\* A flush only once the buffer is longer than the threshold.
NeedsFlushAbove(len, threshold) == len > threshold

\* if buffer.len() >= config.buffer
NeedsFlush(len, threshold) == len >= threshold

\* BufRead::lines on decoded bytes: the pieces between separators; a last
\* piece without a separator is a line, nothing after a final separator
\* is not.
RECURSIVE SplitLines(_, _)
SplitLines(bytes, line) ==
    IF bytes = <<>> THEN (IF line = <<>> THEN <<>> ELSE <<line>>)
    ELSE IF Head(bytes) = Sep THEN <<line>> \o SplitLines(Tail(bytes), <<>>)
    ELSE SplitLines(Tail(bytes), Append(line, Head(bytes)))

\* generate_output_filename: output dir, stem, suffix, extension, ".zst".
\* An input "<stem>.<ext>.zst" is [stem, ext], the stem a sequence of parts.
generate_output_filename(name, cfg) ==
    [dir |-> cfg.output,
     stem |-> name.stem \o cfg.suffix,
     ext |-> IF cfg.file_extension = "" THEN name.ext ELSE cfg.file_extension,
     zst |-> cfg.zstd]

NoFile == [exists |-> FALSE, content |-> <<>>]
EmptyFile == [exists |-> TRUE, content |-> <<>>]
\* an artifact left by an earlier run
OldFile == [exists |-> TRUE, content |-> <<"a">>]


\* ---------------------------------------------------------------- state

VARIABLES
    cli,                          \* what the command line and config.toml ask for
    config,                       \* Config of set_config
    overflow_checks,              \* the build: u64 arithmetic panics on overflow, or wraps
    poolSize,                     \* worker threads of the global rayon pool
    zstd_files,                   \* the discovered inputs, 1..n
    input_file_path,              \* per input: its name [stem, ext]
    input_size,                   \* per input: metadata.len() at discovery
    input_lines,                  \* the lines an input may decode to
    input_max_lines,              \* the most lines an input decodes to
    fs,                           \* the inputs' destinations: name -> [exists, content]
    fs0,                          \* the destinations when the run began
    run,                          \* 1, or 2 when the program is run again
    global_decompressed_size,
    global_decompressed_lines,
    global_filtered_lines,
    global_processed_size,
    global_to_be_processed_size,
    task,                         \* per input: the locals of its read_lines call
    pbPos,                        \* pb position (pb.inc)
    pbFinished,                   \* pb.is_finished()
    mainPc,                       \* where main is
    est                           \* the locals of start_progress_updater

vars == <<cli, config, overflow_checks, poolSize, zstd_files, input_file_path,
          input_size, input_lines, input_max_lines, fs, fs0, run, global_decompressed_size, global_decompressed_lines,
          global_filtered_lines, global_processed_size,
          global_to_be_processed_size, task, pbPos, pbFinished, mainPc, est>>

envVars == <<cli, config, overflow_checks, poolSize, zstd_files, input_file_path,
             input_size, input_lines, input_max_lines, fs0, run>>
counterVars == <<global_decompressed_size, global_decompressed_lines,
                 global_filtered_lines, global_processed_size,
                 global_to_be_processed_size>>
mainVars == <<pbPos, pbFinished, mainPc>>

\* zstd_files, by index
AllFiles == {1, 2}

\* The locals of read_lines before the call, and its history: metadata and
\* verify are what fs::metadata and verify_zstd answered, lines the lines the
\* decoder has yielded so far, emitted the bytes handed to write_to_output
\* so far, created and deleted what the call did to its destination,
\* existed whether the destination was there at the check of line 228,
\* fault the failure of the environment the call met (create, setup, a
\* write, decode), prev what the input answered in the previous run.
NewTask ==
    [pc |-> "queued", skip |-> "", result |-> "",
     filesize |-> 0, buffer |-> <<>>, last_matching_line |-> <<>>,
     writer |-> FALSE, decompressed_size |-> 0, line_counter |-> 0,
     line_filtered_counter |-> 0, flag_data_written |-> FALSE,
     lines |-> <<>>, notices |-> <<>>, created |-> FALSE, deleted |-> FALSE,
     fault |-> "", existed |-> FALSE, emitted |-> <<>>, levels |-> {},
     metadata |-> "", verify |-> "", prev |-> <<>>]

NewEst ==
    [pc |-> "queued", last_accurate_proc_size |-> 0,
     processed_size_estimate |-> 0, ticked |-> FALSE, divided |-> FALSE,
     disk_usage_reads |-> 0, remaining |-> 0, eta |-> 0,
     global_to_be_processed_size |-> 0]

RECURSIVE SumSizes(_, _)
SumSizes(sizes, n) == IF n = 0 THEN 0 ELSE sizes[n] + SumSizes(sizes, n - 1)

\* config.buffer
BufferSizes == (0..MaxBuffer) \cup {fallback_buffer}

Configs ==
    [input : Dirs, output : Dirs, suffix : Suffixes,
     buffer : BufferSizes, zstd : BOOLEAN, no_write : BOOLEAN, quiet : BOOLEAN,
     pattern : {"^", "x"}, file_extension : FileExtensions, threads : 0..MaxThreads,
     compression_level : {fallback_compression_level}]

\* main, lines 34-44: the pool has threads + 1 workers, or rayon's default
\* (the number of CPUs) when threads is 0.
PoolSizes(cfg) == IF cfg.threads = 0 THEN 1..MaxCpus ELSE {cfg.threads + 1}

output_file_path(f) == generate_output_filename(input_file_path[f], config)

\* The path of an entry of read_dir(config.input) that main takes as an
\* input (lines 62-74: its extension is "zst"), written as a destination is.
InputPath(name) == [dir |-> config.input, stem |-> name.stem, ext |-> name.ext, zst |-> TRUE]

\* The destinations that a discovery in config.input finds, lines 62-74.
Discoverable(fsys) ==
    {o \in DOMAIN fsys : fsys[o].exists /\ o.zst /\ o.dir = config.input}

\* The state of main when it reaches the parallel loop: the inputs are
\* discovered, their sizes reserved, the progress updater spawned.
InitWith(p) ==
    /\ input_lines = p.lines
    /\ input_max_lines = p.limit
    /\ config \in p.cfgs
    /\ cli = [pattern |-> config.pattern, compression_level |-> config.compression_level]
    /\ overflow_checks \in BOOLEAN
    /\ poolSize \in PoolSizes(config)
    /\ zstd_files \in {1..n : n \in p.counts}
    /\ input_file_path \in p.names
    /\ input_size \in [AllFiles -> p.sizes]
    /\ \A f \in AllFiles \ zstd_files : input_size[f] = 0
    /\ \E pre \in [AllFiles -> p.pres] :
          fs = [o \in {output_file_path(f) : f \in zstd_files} |->
                  IF \E f \in zstd_files : o = output_file_path(f)
                  THEN pre[CHOOSE f \in zstd_files : o = output_file_path(f)]
                  ELSE NoFile]
    /\ \A o \in Discoverable(fs) :
          \E f \in zstd_files : InputPath(input_file_path[f]) = o
    /\ fs0 = fs
    /\ run = 1
    /\ global_decompressed_size = 0
    /\ global_decompressed_lines = 0
    /\ global_filtered_lines = 0
    /\ global_processed_size = 0
    /\ global_to_be_processed_size = SumSizes(input_size, Cardinality(AllFiles))
    /\ task = [f \in AllFiles |-> NewTask]
    /\ pbPos = 0
    /\ pbFinished = FALSE
    /\ mainPc = "dispatch"
    /\ est = NewEst

\* ------------------------------------------------------------ read_lines

Running(f) == task[f].pc \notin {"queued", "ended", "panicked"}
BusyWorkers ==
    Cardinality({f \in zstd_files : Running(f)})
        + (IF est.pc = "running" THEN 1 ELSE 0)

\* print_if_not_quiet
Notice(t, msg) == IF config.quiet THEN t.notices ELSE Append(t.notices, msg)

Return(t, res) == [t EXCEPT !.pc = "returned", !.result = res]
Skip(t, why, msg) ==
    [Return(t, "Ok") EXCEPT !.skip = why, !.notices = Notice(t, msg)]

\* A failure returned as an error instead of a panic.
PanicAsError(t, why) == [t EXCEPT !.pc = "returned", !.result = "Err", !.fault = why]

\* The panic of lines 254 and 350 (unwrap) and of line 367.
Panic(t, why) == [t EXCEPT !.pc = "panicked", !.result = "panic", !.fault = why]

\* The guards with the signature check ahead of the empty and exists checks.
GuardOrderSwapped(f, metadata, verify) ==
    IF metadata = "unreadable"
    THEN Skip(task[f], "unreadable", "Failed to get metadata")
    ELSE IF verify # "ok" THEN Skip(task[f], "not-zstd", "Skipped not valid zstd")
    ELSE IF input_size[f] = 0 THEN Skip(task[f], "empty", "Skipping empty file")
    ELSE IF fs[output_file_path(f)].exists
    THEN Skip([task[f] EXCEPT !.existed = TRUE], "exists", "Skipping existing output file")
    ELSE [task[f] EXCEPT !.pc = "create", !.filesize = input_size[f]]

\* Lines 198-254: the entry guards, in the order of the code, and the
\* Regex::new(..).unwrap() of line 254.  metadata is what fs::metadata
\* answers, verify what verify_zstd does.
EntryGuards(f, metadata, verify) ==
    IF metadata = "unreadable"
    THEN Skip(task[f], "unreadable", "Failed to get metadata")
    ELSE IF input_size[f] = 0 THEN Skip(task[f], "empty", "Skipping empty file")
    ELSE IF fs[output_file_path(f)].exists
    THEN Skip([task[f] EXCEPT !.existed = TRUE, !.filesize = input_size[f]],
              "exists", "Skipping existing output file")
    ELSE IF verify # "ok"
    THEN Skip([task[f] EXCEPT !.filesize = input_size[f]], "not-zstd",
              IF verify = "open" THEN "Failed to open file"
              ELSE IF verify = "decoder" THEN "Failed to decode zstd"
              ELSE "Skipped not valid zstd")
    ELSE IF ~compiles(config.pattern)
    THEN Panic([task[f] EXCEPT !.filesize = input_size[f]], "regex")
    ELSE [task[f] EXCEPT !.pc = "create", !.filesize = input_size[f]]

\* In a second run an input answers as it did in the first.
SameInput(t, answer) ==
    IF t.prev = <<>> THEN TRUE ELSE \A k \in DOMAIN answer : t.prev[1][k] = answer[k]
NextLines(t) ==
    IF t.prev = <<>> THEN input_lines
    ELSE IF Len(t.lines) < Len(t.prev[1].lines) THEN {t.prev[1].lines[Len(t.lines) + 1]}
    ELSE {}
AtEnd(t) == IF t.prev = <<>> THEN TRUE ELSE Len(t.lines) = Len(t.prev[1].lines)

\* A subtraction of twice the size.
fetch_sub_twice(counter, n) == (counter - 2 * n) % U64Modulus

\* AtomicU64::fetch_sub, line 231: the subtraction wraps.
fetch_sub(counter, n) == (counter - n) % U64Modulus

\* A worker takes the next input and runs read_lines up to the creation of
\* the output.  The progress updater was queued first, so it is taken first.
StartTask(f) ==
    /\ mainPc = "dispatch"
    /\ f \in zstd_files
    /\ task[f].pc = "queued"
    /\ est.pc # "queued"
    /\ BusyWorkers < poolSize
    /\ \E metadata \in {"ok", "unreadable"},
          verify \in {"ok", "open", "magic", "decoder"} :
          LET t == [EntryGuards(f, metadata, verify) EXCEPT
                        !.metadata = metadata, !.verify = verify] IN
          /\ SameInput(task[f], [metadata |-> metadata, verify |-> verify])
          /\ task' = [task EXCEPT ![f] = t]
          /\ global_to_be_processed_size' =
                IF t.skip = "exists"
                THEN fetch_sub(global_to_be_processed_size, t.filesize)
                ELSE global_to_be_processed_size
    /\ UNCHANGED <<envVars, fs, global_decompressed_size, global_decompressed_lines,
                   global_filtered_lines, global_processed_size, mainVars, est>>


\* Lines 256-280 and 312-317: File::create when writing is enabled (a
\* failure is reported and leaves no writer), then File::open, Decoder::new
\* and window_log_max, each of which returns its error with "?".
OpenOutputAndInput(t, o, createOk, setupOk) ==
    LET made == ~config.no_write /\ createOk
        t1 == [t EXCEPT !.writer = made, !.created = made,
                        !.fault = IF ~setupOk THEN "setup"
                                  ELSE IF ~config.no_write /\ ~createOk THEN "create"
                                  ELSE @,
                        !.notices = IF config.no_write \/ createOk THEN t.notices
                                    ELSE Notice(t, "Unable to create output file")]
    IN  IF setupOk THEN [t1 EXCEPT !.pc = "filter"] ELSE Return(t1, "Err")

CreateOutput(f) ==
    /\ mainPc = "dispatch"
    /\ task[f].pc = "create"
    /\ \E createOk \in BOOLEAN, setupOk \in BOOLEAN :
          LET o == output_file_path(f)
              t == OpenOutputAndInput(task[f], o, createOk, setupOk) IN
          /\ task' = [task EXCEPT ![f] = t]
          /\ fs' = IF t.created THEN [fs EXCEPT ![o] = EmptyFile] ELSE fs
    /\ UNCHANGED <<envVars, counterVars, mainVars, est>>

\* Lines 355-365: the decoded bytes of the line are counted; past the
\* interval the three local counts are published.
CountLine(t, line) ==
    LET size == t.decompressed_size + Len(line) IN
    [t EXCEPT !.decompressed_size = size,
              !.pc = IF size > UpdateInterval THEN "pub1" ELSE "filter"]

\* Lines 331-347: a kept line is counted; when writing is enabled the pending
\* line goes to the buffer with a separator and the line becomes pending.
KeepLine(t, line) ==
    IF config.no_write
    THEN [t EXCEPT !.line_filtered_counter = @ + 1]
    ELSE [t EXCEPT !.line_filtered_counter = @ + 1,
                   !.flag_data_written = TRUE,
                   !.buffer = PromotePending(t.buffer, t.last_matching_line),
                   !.last_matching_line = <<line>>]

\* Line 289, Encoder::new(writer, config.compression_level): the levels a
\* task has handed to an encoder, after one more call of write_to_output.
Encoded(t) ==
    IF t.writer /\ config.zstd THEN t.levels \cup {config.compression_level} ELSE t.levels

\* flush_buffer, when write_to_output succeeds: the buffer is handed over
\* and cleared.
Flushed(t) ==
    [t EXCEPT !.emitted = @ \o t.buffer, !.buffer = <<>>, !.levels = Encoded(t)]

\* Whether a call of write_to_output can fail: Write::write_all of no bytes
\* returns Ok at once, while the encoder writes a frame even for no bytes.
WriteMayFail(data) == config.zstd \/ data # <<>>

\* One pass of the loop of lines 326-373 on a line the decoder yields.
\* writeOk is whether the threshold flush, if there is one, succeeds.
HandleLine(f, line, writeOk) ==
    LET o == output_file_path(f)
        t0 == [task[f] EXCEPT !.lines = Append(@, line), !.line_counter = @ + 1]
        kept == is_match(config.pattern, line)
        t1 == IF kept THEN KeepLine(t0, line) ELSE t0
        flush == kept /\ ~config.no_write
                    /\ NeedsFlush(Len(t1.buffer), config.buffer)
    IN  IF ~flush
        THEN /\ task' = [task EXCEPT ![f] = CountLine(t1, line)]
             /\ fs' = fs
        ELSE IF ~t1.writer
        THEN /\ task' = [task EXCEPT ![f] = CountLine(Flushed(t1), line)]
             /\ fs' = fs
        ELSE IF writeOk \/ ~WriteMayFail(t1.buffer)
        THEN /\ task' = [task EXCEPT ![f] = CountLine(Flushed(t1), line)]
             /\ fs' = [fs EXCEPT ![o].content = write_to_output(@, t1.buffer, config.zstd)]
        ELSE /\ task' = [task EXCEPT ![f] = Panic(t1, "threshold flush")]
             /\ fs' = fs

ReadLine(f) ==
    /\ mainPc = "dispatch"
    /\ task[f].pc = "filter"
    /\ Len(task[f].lines) < input_max_lines
    /\ \E line \in NextLines(task[f]), writeOk \in BOOLEAN : HandleLine(f, line, writeOk)
    /\ UNCHANGED <<envVars, counterVars, mainVars, est>>

\* Line 367: the decoder yields an error instead of a line.
DecodeError(f) ==
    /\ mainPc = "dispatch"
    /\ task[f].pc = "filter"
    /\ task' = [task EXCEPT ![f] = Panic(@, "decode")]
    /\ UNCHANGED <<envVars, fs, counterVars, mainVars, est>>

\* The decoder's stream ends.
EndOfStream(f) ==
    /\ mainPc = "dispatch"
    /\ task[f].pc = "filter"
    /\ AtEnd(task[f])
    /\ task' = [task EXCEPT ![f].pc = "fin1"]
    /\ UNCHANGED <<envVars, fs, counterVars, mainVars, est>>

\* A store in place of the atomic addition.
StoreInsteadOfAdd(counter, n) == n

\* AtomicUsize::fetch_add, AtomicU64::fetch_add
fetch_add(counter, n) == counter + n

\* Lines 359-364 and 377-380: one fetch_add per step, the local count reset
\* after the in-loop ones.
PublishSize(f) ==
    /\ mainPc = "dispatch"
    /\ task[f].pc \in {"pub1", "fin1"}
    /\ global_decompressed_size' =
          fetch_add(global_decompressed_size, task[f].decompressed_size)
    /\ task' = [task EXCEPT ![f].pc = IF @ = "pub1" THEN "pub2" ELSE "fin2",
                            ![f].decompressed_size = IF task[f].pc = "pub1" THEN 0 ELSE @]
    /\ UNCHANGED <<envVars, fs, global_decompressed_lines, global_filtered_lines,
                   global_processed_size, global_to_be_processed_size, mainVars, est>>

PublishLines(f) ==
    /\ mainPc = "dispatch"
    /\ task[f].pc \in {"pub2", "fin2"}
    /\ global_decompressed_lines' =
          fetch_add(global_decompressed_lines, task[f].line_counter)
    /\ task' = [task EXCEPT ![f].pc = IF @ = "pub2" THEN "pub3" ELSE "fin3",
                            ![f].line_counter = IF task[f].pc = "pub2" THEN 0 ELSE @]
    /\ UNCHANGED <<envVars, fs, global_decompressed_size, global_filtered_lines,
                   global_processed_size, global_to_be_processed_size, mainVars, est>>

PublishFiltered(f) ==
    /\ mainPc = "dispatch"
    /\ task[f].pc \in {"pub3", "fin3"}
    /\ global_filtered_lines' =
          fetch_add(global_filtered_lines, task[f].line_filtered_counter)
    /\ task' = [task EXCEPT ![f].pc = IF @ = "pub3" THEN "filter" ELSE "fin4",
                            ![f].line_filtered_counter = IF task[f].pc = "pub3" THEN 0 ELSE @]
    /\ UNCHANGED <<envVars, fs, global_decompressed_size, global_decompressed_lines,
                   global_processed_size, global_to_be_processed_size, mainVars, est>>

\* Line 380
PublishProcessed(f) ==
    /\ mainPc = "dispatch"
    /\ task[f].pc = "fin4"
    /\ global_processed_size' = fetch_add(global_processed_size, task[f].filesize)
    /\ task' = [task EXCEPT ![f].pc = "flush"]
    /\ UNCHANGED <<envVars, fs, global_decompressed_size, global_decompressed_lines,
                   global_filtered_lines, global_to_be_processed_size, mainVars, est>>

\* Lines 382-385: the residual flush; its error is returned.
FlushResidual(f) ==
    /\ mainPc = "dispatch"
    /\ task[f].pc = "flush"
    /\ LET t == task[f]
           o == output_file_path(f) IN
       IF t.buffer = <<>>
       THEN /\ task' = [task EXCEPT ![f].pc = "last"]
            /\ fs' = fs
       ELSE IF ~t.writer
       THEN /\ task' = [task EXCEPT ![f] = [Flushed(t) EXCEPT !.pc = "last"]]
            /\ fs' = fs
       ELSE \/ /\ task' = [task EXCEPT ![f] = [Flushed(t) EXCEPT !.pc = "last"]]
               /\ fs' = [fs EXCEPT ![o].content = write_to_output(@, t.buffer, config.zstd)]
            \/ /\ task' = [task EXCEPT ![f] =
                              Return([t EXCEPT !.fault = "residual flush"], "Err")]
               /\ fs' = fs
    /\ UNCHANGED <<envVars, counterVars, mainVars, est>>

\* write_to_output(last_line.as_bytes()), when it succeeds.
WrittenLast(t) ==
    [t EXCEPT !.pc = "cleanup", !.emitted = @ \o t.last_matching_line[1],
              !.levels = Encoded(t)]

\* Lines 387-390: the pending line is written without a separator.
WriteLast(f) ==
    /\ mainPc = "dispatch"
    /\ task[f].pc = "last"
    /\ LET t == task[f]
           o == output_file_path(f) IN
       IF t.last_matching_line = <<>>
       THEN /\ task' = [task EXCEPT ![f].pc = "cleanup"]
            /\ fs' = fs
       ELSE IF ~t.writer
       THEN /\ task' = [task EXCEPT ![f] = WrittenLast(t)]
            /\ fs' = fs
       ELSE \/ /\ task' = [task EXCEPT ![f] = WrittenLast(t)]
               /\ fs' = [fs EXCEPT ![o].content =
                            write_to_output(@, t.last_matching_line[1], config.zstd)]
            \/ /\ WriteMayFail(t.last_matching_line[1])
               /\ task' = [task EXCEPT ![f] =
                              Return([t EXCEPT !.fault = "pending line"], "Err")]
               /\ fs' = fs
    /\ UNCHANGED <<envVars, counterVars, mainVars, est>>

\* Line 393: if !flag_data_written
ShouldDelete(t, file) == ~t.flag_data_written

\* Lines 392-407: fs::remove_file when nothing was kept; its error (there is
\* no such file) is returned before the notice.
Cleanup(f) ==
    /\ mainPc = "dispatch"
    /\ task[f].pc = "cleanup"
    /\ LET t == task[f]
           o == output_file_path(f) IN
       IF ~ShouldDelete(t, fs[o])
       THEN /\ task' = [task EXCEPT ![f] = Return(t, "Ok")]
            /\ fs' = fs
       ELSE IF fs[o].exists
       THEN /\ task' = [task EXCEPT ![f] =
                           Return([t EXCEPT !.deleted = TRUE,
                                            !.notices = Notice(t, "Empty output file deleted")],
                                  "Ok")]
            /\ fs' = [fs EXCEPT ![o] = NoFile]
       ELSE /\ task' = [task EXCEPT ![f] = Return(t, "Err")]
            /\ fs' = fs
    /\ UNCHANGED <<envVars, counterVars, mainVars, est>>

\* pb.inc(1) only when read_lines returned Ok.
PbIncOnOk(f) ==
    /\ mainPc = "dispatch"
    /\ task[f].pc = "returned"
    /\ task' = [task EXCEPT ![f].pc = "ended"]
    /\ pbPos' = IF task[f].result = "Ok" THEN pbPos + 1 ELSE pbPos
    /\ UNCHANGED <<envVars, fs, counterVars, pbFinished, mainPc, est>>

\* main, line 162: pb.inc(1) once read_lines has returned.
PbInc(f) ==
    /\ mainPc = "dispatch"
    /\ task[f].pc = "returned"
    /\ task' = [task EXCEPT ![f].pc = "ended"]
    /\ pbPos' = pbPos + 1
    /\ UNCHANGED <<envVars, fs, counterVars, pbFinished, mainPc, est>>


\* ------------------------------------------------------------------ main

\* Lines 151-163: for_each returns once every input's closure has returned.
\* Its root job runs on a worker of the pool, behind the progress updater.
MainJoin ==
    /\ mainPc = "dispatch"
    /\ est.pc # "queued"
    /\ BusyWorkers < poolSize
    /\ \A f \in zstd_files : task[f].pc = "ended"
    /\ mainPc' = "sleep"
    /\ UNCHANGED <<envVars, fs, counterVars, task, pbPos, pbFinished, est>>

\* A panic of a closure is carried out of for_each once the closures that
\* run have ended; the inputs left in the panicking job are never started.
MainPanic ==
    /\ mainPc = "dispatch"
    /\ \E f \in zstd_files : task[f].pc = "panicked"
    /\ \A f \in zstd_files : ~Running(f)
    /\ mainPc' = "panicked"
    /\ UNCHANGED <<envVars, fs, counterVars, task, pbPos, pbFinished, est>>

\* Lines 165-170: the sleep, pb.finish(), "All files processed."
MainFinish ==
    /\ mainPc = "sleep"
    /\ mainPc' = "finished"
    /\ pbFinished' = TRUE
    /\ UNCHANGED <<envVars, fs, counterVars, task, pbPos, est>>

\* ------------------------------------------------ start_progress_updater

\* rayon::spawn, line 148: the first job a worker takes.
EstStart ==
    /\ mainPc = "dispatch"
    /\ est.pc = "queued"
    /\ BusyWorkers < poolSize
    /\ est' = [est EXCEPT !.pc = "running"]
    /\ UNCHANGED <<envVars, fs, counterVars, task, mainVars>>

\* The estimate taken from the disk reads alone, the anchor kept up.
estimate_from_reads(e, processed, reads) ==
    [e EXCEPT !.last_accurate_proc_size = processed,
              !.processed_size_estimate = @ + reads]

\* Lines 550-556: the anchor and the estimate.
estimate_size(e, processed, reads) ==
    IF e.last_accurate_proc_size = processed
    THEN [e EXCEPT !.processed_size_estimate = @ + reads]
    ELSE [e EXCEPT !.last_accurate_proc_size = processed,
                   !.processed_size_estimate = processed]

\* The ETA with a zero rate tested before the division.
remaining_time_guarded(remaining, reads) ==
    IF reads = 0 THEN remaining ELSE remaining \div reads

\* Lines 563-566: (remaining as f64 / reads as f64) as u64.  The division
\* is IEEE 754: x / 0.0 is +inf for x > 0 and NaN for x = 0, and the cast
\* saturates (+inf to u64::MAX) and takes NaN to 0.
remaining_time(remaining, reads) ==
    IF reads = 0
    THEN IF remaining = 0 THEN 0 ELSE U64Max
    ELSE remaining \div reads

\* A pass that drains the decoded-bytes counter (swap(0) for load).
EstTickDrains ==
    /\ mainPc \in {"dispatch", "sleep", "finished"}
    /\ est.pc = "running"
    /\ est' = [est EXCEPT !.ticked = TRUE,
                          !.pc = IF pbFinished THEN "exited" ELSE "running"]
    /\ global_decompressed_size' = 0
    /\ UNCHANGED <<envVars, fs, global_decompressed_lines, global_filtered_lines,
                   global_processed_size, global_to_be_processed_size,
                   task, mainVars>>

\* One pass of the loop of lines 504-637.  reads is disk_usage.read_bytes.
\* Line 561 subtracts in u64: below zero it panics when the build checks
\* overflow (a panic of a spawned job aborts the process) and wraps otherwise.
EstTick ==
    /\ mainPc \in {"dispatch", "sleep", "finished"}
    /\ est.pc = "running"
    /\ \E reads \in 0..MaxReads :
          LET e == estimate_size(est, global_processed_size, reads)
              diff == global_to_be_processed_size - e.processed_size_estimate
              e1 == [e EXCEPT !.ticked = TRUE, !.disk_usage_reads = reads,
                              !.global_to_be_processed_size = global_to_be_processed_size]
          IN  /\ e.processed_size_estimate <= MaxEstimate
              /\ IF diff < 0 /\ overflow_checks
                 THEN /\ est' = [e1 EXCEPT !.pc = "panicked", !.divided = FALSE]
                      /\ mainPc' = "aborted"
                 ELSE /\ est' = [e1 EXCEPT
                            !.remaining = diff % U64Modulus,
                            !.divided = TRUE,
                            !.eta = remaining_time(diff % U64Modulus, reads),
                            !.pc = IF pbFinished THEN "exited" ELSE "running"]
                      /\ mainPc' = mainPc
    /\ UNCHANGED <<envVars, fs, counterVars, task, pbPos, pbFinished>>

\* ------------------------------------------------------- specifications

TaskStep(f) ==
    \/ StartTask(f)
    \/ CreateOutput(f)
    \/ ReadLine(f)
    \/ DecodeError(f)
    \/ EndOfStream(f)
    \/ PublishSize(f)
    \/ PublishLines(f)
    \/ PublishFiltered(f)
    \/ PublishProcessed(f)
    \/ FlushResidual(f)
    \/ WriteLast(f)
    \/ Cleanup(f)
    \/ PbInc(f)

MainStep == MainJoin \/ MainPanic \/ MainFinish

Next ==
    \/ \E f \in AllFiles : TaskStep(f)
    \/ MainStep
    \/ EstStart
    \/ EstTick

\* Inputs with distinct stems have distinct destinations.
DistinctStems ==
    {[f \in AllFiles |-> [stem |-> IF f = 1 THEN <<"s1">> ELSE <<"s2">>, ext |-> "jsonl"]]}

\* Input and output in two directories, the suffix of set_config's fallback.
TwoDirs(c) == c.input = "./" /\ c.output = "out/" /\ c.suffix = <<"_filtered">>

SysConfigs ==
    {c \in Configs : TwoDirs(c) /\ c.file_extension = "" /\ c.buffer = fallback_buffer
                     /\ c.pattern = "x" /\ ~c.quiet /\ ~c.zstd /\ ~c.no_write}

\* The whole program: the dispatcher, the tasks and the progress updater.
Init ==
    InitWith([cfgs |-> SysConfigs, counts |-> {0, 1}, names |-> DistinctStems,
              lines |-> {<<"x">>}, limit |-> 2, pres |-> {NoFile, OldFile},
              sizes |-> 0..MaxFileSize])

Spec == Init /\ [][Next]_vars

\* Scheduling: a worker that holds a job runs it on, a free worker takes
\* the job at the head of the queue, and main goes on when for_each returns.
Fairness ==
    /\ \A f \in AllFiles : WF_vars(TaskStep(f))
    /\ WF_vars(MainStep)
    /\ WF_vars(EstStart)
    /\ WF_vars(EstTick)

SpecLive == Init /\ [][Next]_vars /\ Fairness

FilterConfigs == {c \in Configs : TwoDirs(c) /\ c.file_extension = "" /\ c.threads = 1}

\* One input, every configuration of the filter; the progress updater is
\* started and left out of the steps.
InitFilter ==
    /\ InitWith([cfgs |-> FilterConfigs, counts |-> {1}, names |-> DistinctStems,
                 lines |-> LineSet, limit |-> MaxLines, pres |-> {NoFile, OldFile},
                 sizes |-> {0, 1}])
    /\ overflow_checks = FALSE

NextFilter ==
    \/ \E f \in AllFiles : TaskStep(f)
    \/ MainStep
    \/ EstStart

SpecFilter == InitFilter /\ [][NextFilter]_vars

TasksConfigs ==
    {c \in Configs : TwoDirs(c) /\ c.file_extension = "" /\ c.buffer \in {0, fallback_buffer}
                     /\ c.pattern = "x" /\ ~c.quiet /\ ~c.zstd /\ c.threads = 0}

\* Two inputs whose tasks run side by side.
InitTasks ==
    /\ InitWith([cfgs |-> TasksConfigs, counts |-> {2}, names |-> DistinctStems,
                 lines |-> {<<"a">>, <<"x">>}, limit |-> 2,
                 pres |-> {NoFile, OldFile}, sizes |-> {0, MaxFileSize}])
    /\ overflow_checks = FALSE

SpecTasks == InitTasks /\ [][NextFilter]_vars

\* Two inputs that differ in their inner extension only: with
\* --file-extension both are given the same destination.
SharedStem ==
    {[f \in AllFiles |-> [stem |-> <<"s1">>, ext |-> IF f = 1 THEN "jsonl" ELSE "json"]]}

SharedConfigs ==
    {c \in Configs : TwoDirs(c) /\ c.file_extension = "out" /\ c.buffer = 0
                      /\ c.pattern = "x" /\ ~c.quiet /\ ~c.zstd /\ ~c.no_write
                      /\ c.threads = 0}

InitShared ==
    /\ InitWith([cfgs |-> SharedConfigs, counts |-> {2}, names |-> SharedStem,
                 lines |-> {<<"a">>, <<"x">>}, limit |-> 2,
                 pres |-> {NoFile}, sizes |-> {MaxFileSize}])
    /\ overflow_checks = FALSE

SpecShared == InitShared /\ [][NextFilter]_vars


\* The program is run again with the same configuration after a run that
\* ended with "All files processed." and met no failure of the environment.
\* Lines 46-83 discover the inputs anew: the inputs of the first run, and
\* every artifact the first run left in config.input with the extension
\* "zst".  An input of the first run answers as it did; an artifact decodes
\* to the lines that were written to it.
Rerun ==
    /\ mainPc = "finished"
    /\ run = 1
    /\ \A f \in zstd_files : task[f].fault = ""
    /\ LET found == {o \in Discoverable(fs) :
                        \A f \in zstd_files : InputPath(input_file_path[f]) # o}
           n == Cardinality(zstd_files)
       IN  /\ n + Cardinality(found) <= Cardinality(AllFiles)
           /\ \E at \in [found -> AllFiles \ zstd_files] :
                 LET files == zstd_files \cup {at[o] : o \in found}
                     of(f) == CHOOSE o \in found : at[o] = f
                     names == [f \in AllFiles |->
                                 IF f \in files \ zstd_files
                                 THEN [stem |-> of(f).stem, ext |-> of(f).ext]
                                 ELSE input_file_path[f]]
                     sizes == [f \in AllFiles |->
                                 IF f \in files \ zstd_files
                                 THEN Len(fs[of(f)].content)
                                 ELSE input_size[f]]
                     dests == {generate_output_filename(names[f], config) : f \in files}
                     files2 == [o \in DOMAIN fs \cup dests |->
                                  IF o \in DOMAIN fs THEN fs[o] ELSE NoFile]
                 IN  /\ \A o, q \in found : at[o] = at[q] => o = q
                     /\ files = 1..(n + Cardinality(found))
                     /\ zstd_files' = files
                     /\ input_file_path' = names
                     /\ input_size' = sizes
                     /\ fs' = files2
                     /\ fs0' = files2
                     /\ global_to_be_processed_size' =
                           SumSizes(sizes, Cardinality(AllFiles)) % U64Modulus
                     /\ task' = [f \in AllFiles |->
                           IF f \in zstd_files
                           THEN [NewTask EXCEPT !.prev = <<[metadata |-> task[f].metadata,
                                                            verify |-> task[f].verify,
                                                            lines |-> task[f].lines]>>]
                           ELSE IF f \in files
                           THEN [NewTask EXCEPT !.prev =
                                    <<[metadata |-> "ok", verify |-> "ok",
                                       lines |-> SplitLines(ZstdDecode(fs[of(f)].content), <<>>)]>>]
                           ELSE NewTask]
    /\ run' = 2
    /\ global_decompressed_size' = 0
    /\ global_decompressed_lines' = 0
    /\ global_filtered_lines' = 0
    /\ global_processed_size' = 0
    /\ pbPos' = 0
    /\ pbFinished' = FALSE
    /\ mainPc' = "dispatch"
    /\ est' = NewEst
    /\ UNCHANGED <<cli, config, overflow_checks, poolSize, input_lines, input_max_lines>>

RerunConfigs ==
    {c \in Configs : c.input = "./" /\ c.suffix = <<"_filtered">>
                     /\ c.file_extension = "" /\ c.pattern = "x" /\ ~c.quiet
                     /\ c.threads = 1}

\* A second run of the program: two inputs and the artifacts in another
\* directory, or one input and the artifacts beside it (set_config's
\* fallback for input and output is "./" for both).
InitRerun ==
    /\ \/ InitWith([cfgs |-> {c \in RerunConfigs : c.output = "out/"
                                  /\ c.buffer \in {1, fallback_buffer}},
                    counts |-> {2}, names |-> DistinctStems,
                    lines |-> {<<"a">>, <<"x">>}, limit |-> 2,
                    pres |-> {NoFile, EmptyFile, OldFile}, sizes |-> {0, 1}])
       \/ InitWith([cfgs |-> {c \in RerunConfigs : c.output = "./"
                                  /\ c.buffer = fallback_buffer},
                    counts |-> {1}, names |-> DistinctStems,
                    lines |-> {<<"a">>, <<"x">>}, limit |-> 2,
                    pres |-> {NoFile, EmptyFile, OldFile}, sizes |-> {0, 1}])
    /\ overflow_checks = FALSE

NextRerun == NextFilter \/ Rerun

SpecRerun == InitRerun /\ [][NextRerun]_vars

\* -------------------------------------------------------------- start-up

\* main, lines 31-32, and set_config, lines 812-825: an invalid pattern ends
\* the process (process::exit(1)); the level is clamped.  Before the step
\* config holds the values merged from the command line, config.toml and the
\* fallbacks (lines 732-810).
SetConfig ==
    /\ mainPc = "set_config"
    /\ IF validate_regex(cli.pattern)
       THEN /\ config' = [config EXCEPT
                             !.pattern = cli.pattern,
                             !.compression_level = effective_level(cli.compression_level)]
            /\ mainPc' = "build_pool"
       ELSE /\ config' = config
            /\ mainPc' = "exited"
    /\ UNCHANGED <<cli, overflow_checks, poolSize, zstd_files, input_file_path,
                   input_size, input_lines, input_max_lines, fs, fs0, run,
                   counterVars, task, pbPos, pbFinished, est>>

\* main, lines 34-44: the global pool is built.
BuildPool ==
    /\ mainPc = "build_pool"
    /\ poolSize' \in PoolSizes(config)
    /\ mainPc' = "discover"
    /\ UNCHANGED <<cli, config, overflow_checks, zstd_files, input_file_path,
                   input_size, input_lines, input_max_lines, fs, fs0, run,
                   counterVars, task, pbPos, pbFinished, est>>

\* main, lines 46-148: the .zst entries of config.input are collected, their
\* sizes summed and reserved, the progress updater spawned.
Discover ==
    /\ mainPc = "discover"
    /\ \E n \in 1..Cardinality(AllFiles), sizes \in [AllFiles -> {0, MaxFileSize}] :
          /\ \A f \in AllFiles : f > n => sizes[f] = 0
          /\ zstd_files' = 1..n
          /\ input_size' = sizes
          /\ global_to_be_processed_size' =
                fetch_add(global_to_be_processed_size, SumSizes(sizes, n))
    /\ mainPc' = "dispatch"
    /\ UNCHANGED <<cli, config, overflow_checks, poolSize, input_file_path,
                   input_lines, input_max_lines, fs, fs0, run,
                   global_decompressed_size, global_decompressed_lines,
                   global_filtered_lines, global_processed_size,
                   task, pbPos, pbFinished, est>>

\* What the user asks for: a pattern that compiles or not, any level.
StartupConfigs ==
    {c \in Configs : TwoDirs(c) /\ c.file_extension = "" /\ c.buffer = fallback_buffer
                      /\ c.pattern = "x" /\ ~c.quiet /\ c.zstd /\ ~c.no_write
                      /\ c.threads = 1}

\* The program at its first line: nothing configured, built or discovered.
InitStartup ==
    /\ config \in StartupConfigs
    /\ cli \in [pattern : {"x", "("}, compression_level : Levels]
    /\ overflow_checks = FALSE
    /\ poolSize = 0
    /\ zstd_files = {}
    /\ input_file_path \in DistinctStems
    /\ input_size = [f \in AllFiles |-> 0]
    /\ input_lines = {<<"x">>}
    /\ input_max_lines = 1
    /\ fs = [o \in {output_file_path(f) : f \in AllFiles} |-> NoFile]
    /\ fs0 = fs
    /\ run = 1
    /\ global_decompressed_size = 0
    /\ global_decompressed_lines = 0
    /\ global_filtered_lines = 0
    /\ global_processed_size = 0
    /\ global_to_be_processed_size = 0
    /\ task = [f \in AllFiles |-> NewTask]
    /\ pbPos = 0
    /\ pbFinished = FALSE
    /\ mainPc = "set_config"
    /\ est = NewEst

NextStartup == SetConfig \/ BuildPool \/ Discover \/ NextFilter

SpecStartup == InitStartup /\ [][NextStartup]_vars

\* ---------------------------------------------------------------- claims

\* read_lines has returned (through line 407, or with an error).
Returned(f) == task[f].pc \in {"returned", "ended"}
\* read_lines went past its entry guards.
PassedGuards(f) == task[f].pc # "queued" /\ task[f].skip = ""
\* read_lines ran to line 407.
Completed(f) == Returned(f) /\ PassedGuards(f) /\ task[f].result = "Ok"
KeptOf(f) == Kept(config.pattern, task[f].lines)
\* What a reader of the artifact gets: its bytes, or its frames decoded.
Decoded(bytes) == IF config.zstd THEN ZstdDecode(bytes) ELSE bytes

\* C1: a task that completes with writing enabled on an input with kept
\* lines L1..Ln (n >= 1) has handed to its output exactly
\* L1 \n L2 \n ... \n Ln, no separator after Ln, whatever the flush
\* threshold (0, 1, ..., and fallback_buffer, which no output reaches); the
\* artifact it created reads back as exactly these bytes.
C1_JoinedOutput ==
    \A f \in zstd_files :
        (Completed(f) /\ ~config.no_write /\ KeptOf(f) # <<>>) =>
            /\ task[f].emitted = Joined(KeptOf(f))
            /\ task[f].created =>
                  /\ fs[output_file_path(f)].exists
                  /\ Decoded(fs[output_file_path(f)].content) = Joined(KeptOf(f))
                  /\ ~config.zstd => fs[output_file_path(f)].content = Joined(KeptOf(f))

\* Three kept lines, a threshold that flushed in the loop, the artifact
\* complete.
C1_Witness ==
    \E f \in zstd_files :
        /\ Completed(f) /\ ~config.no_write /\ ~config.zstd /\ task[f].created
        /\ config.buffer = 1
        /\ Len(KeptOf(f)) = 3 /\ Len(task[f].lines) = 3
        /\ \E i \in 1..3 : KeptOf(f)[i] = <<>>
        /\ fs[output_file_path(f)].content = Joined(KeptOf(f))


Deletions(f) == SelectSeq(task[f].notices, LAMBDA n : n = "Empty output file deleted")

\* C2: once the task of an input that passed the entry guards and has no
\* kept line has returned, no artifact exists for that input: the one the
\* task created was deleted, with one deletion notice unless quiet.
C2_NoArtifactWithoutMatch ==
    \A f \in zstd_files :
        (Returned(f) /\ PassedGuards(f) /\ KeptOf(f) = <<>>) =>
            /\ ~fs[output_file_path(f)].exists
            /\ task[f].created =>
                  /\ task[f].deleted
                  /\ Len(Deletions(f)) = IF config.quiet THEN 0 ELSE 1

\* C3: no zero-length artifact that a task created is left when the task
\* has run to its end.
C3_NoEmptyArtifact ==
    \A f \in zstd_files :
        (Completed(f) /\ task[f].created) =>
            ~(fs[output_file_path(f)].exists /\ fs[output_file_path(f)].content = <<>>)


\* The entry guard that ends the task of an input whose destination exists:
\* the two guards on the input's metadata come first.
ExistsGuard(f) ==
    IF task[f].metadata = "unreadable" THEN "unreadable"
    ELSE IF input_size[f] = 0 THEN "empty"
    ELSE "exists"

\* The task of an input whose destination exists when the run begins ends
\* at an entry guard (Skipped(exists), unless the input is unreadable or
\* empty) without decoding a line; it never creates, writes or deletes the
\* artifact, whose content stays what it was.
ExistingArtifactUntouched ==
    \A f \in zstd_files :
        fs0[output_file_path(f)].exists =>
            /\ fs[output_file_path(f)] = fs0[output_file_path(f)]
            /\ task[f].pc \in {"queued", "returned", "ended"}
            /\ task[f].lines = <<>> /\ task[f].emitted = <<>>
            /\ ~task[f].created /\ ~task[f].deleted
            /\ task[f].pc # "queued" => task[f].skip = ExistsGuard(f)

\* The artifacts there are, each with its content.
Artifacts(fsys) == {<<o, fsys[o].content>> : o \in {x \in DOMAIN fsys : fsys[x].exists}}

\* C4: a task whose destination exists when it starts is skipped before it
\* decodes, and leaves the artifact as it was; and so a second run of the
\* program (neither run meeting a failure) ends with the artifacts the
\* first run ended with.
C4_SecondRunChangesNothing ==
    /\ ExistingArtifactUntouched
    /\ (run = 2 /\ mainPc = "finished" /\ \A f \in zstd_files : task[f].fault = "")
          => Artifacts(fs) = Artifacts(fs0)

\* The second run has ended: one input was skipped for the artifact the
\* first run wrote, the other, without a kept line, was filtered again.
SecondRunSkipped ==
    /\ run = 2 /\ mainPc = "finished"
    /\ \E f, g \in zstd_files :
          /\ task[f].skip = "exists"
          /\ fs[output_file_path(f)].content = <<"x", Sep, "x">>
          /\ PassedGuards(g) /\ task[g].deleted /\ Len(task[g].lines) = 2

RECURSIVE SumOver(_, _)
SumOver(F(_), S) ==
    IF S = {} THEN 0
    ELSE LET f == CHOOSE x \in S : TRUE IN F(f) + SumOver(F, S \ {f})

BytesDecoded(f) == SumLen(task[f].lines)
LinesDecoded(f) == Len(task[f].lines)
LinesKept(f) == Len(KeptOf(f))
AllEnded == \A f \in zstd_files : task[f].pc = "ended"

\* C5: once every task has ended, whatever the interleaving of their
\* publications (in the loop, past the interval, and at the end of the
\* stream), the shared decoded-bytes, decoded-lines and kept-lines counters
\* are the sums over the tasks of what each decoded and kept.
C5_CountersAreSums ==
    AllEnded =>
        /\ global_decompressed_size = SumOver(BytesDecoded, zstd_files)
        /\ global_decompressed_lines = SumOver(LinesDecoded, zstd_files)
        /\ global_filtered_lines = SumOver(LinesKept, zstd_files)

\* Both tasks decoded two one-byte lines, so each published in the loop
\* (2 > UpdateInterval) and again at the end.
C5_Witness ==
    /\ AllEnded /\ Cardinality(zstd_files) = 2
    /\ \A f \in zstd_files : BytesDecoded(f) = 2 /\ LinesKept(f) >= 1
    /\ global_decompressed_size = 4
    /\ global_decompressed_lines = 4


\* C6: at a tick at which the sampled read rate is zero the updater does
\* not divide by it (it takes a guarded path).
C6_ZeroRateNotDivided ==
    (est.ticked /\ est.disk_usage_reads = 0) => ~est.divided

\* C6, as the code has it: a tick with a zero read rate that reaches line
\* 564 divides by 0.0 in f64, which does not fault; the cast saturates, and
\* the ETA is u64::MAX seconds, or 0 when nothing remains (NaN).  A tick
\* that does not reach the division has panicked in the subtraction of
\* line 561.
C6_ZeroRateSaturates ==
    (est.ticked /\ est.disk_usage_reads = 0) =>
        /\ est.divided =>
              /\ est.eta = IF est.remaining = 0 THEN 0 ELSE U64Max
              /\ est.pc # "panicked"
        /\ ~est.divided => est.pc = "panicked" /\ overflow_checks

C6_Witness ==
    /\ est.ticked /\ est.disk_usage_reads = 0 /\ est.divided
    /\ est.remaining = 1 /\ est.eta = U64Max
    /\ est.pc = "running"

\* C7: a task whose destination could not be created does not enter the
\* filtering loop and decodes no line.
C7_CreateFailureAborts ==
    \A f \in zstd_files :
        task[f].fault = "create" =>
            /\ task[f].lines = <<>>
            /\ task[f].pc \in {"returned", "ended"}

\* C8: a write failure (threshold flush, residual flush, pending line) ends
\* only its task, with an error returned: the task does not panic and main
\* is not unwound.
C8_WriteFailureLocal ==
    \A f \in zstd_files :
        task[f].fault \in {"threshold flush", "residual flush", "pending line"} =>
            /\ task[f].pc \in {"returned", "ended"}
            /\ mainPc # "panicked"

\* C9: a decode error in the loop is a panic, not a skip: the task stays
\* where it panicked (its last local counts are never published, its pending
\* line never written), and main never reaches "All files processed.".
C9_DecodeErrorIsFatal ==
    \A f \in zstd_files :
        task[f].fault = "decode" =>
            /\ task[f].pc = "panicked" /\ task[f].result = "panic"
            /\ task[f].skip = ""
            /\ mainPc \in {"dispatch", "panicked"} /\ ~pbFinished
            /\ global_decompressed_lines
                  <= SumOver(LinesDecoded, zstd_files) - task[f].line_counter
            /\ (task[f].writer /\ task[f].last_matching_line # <<>>) =>
                  /\ task[f].emitted \o task[f].buffer \o task[f].last_matching_line[1]
                        = Joined(KeptOf(f))
                  /\ Len(fs[output_file_path(f)].content) < Len(Joined(KeptOf(f)))

\* main was unwound by the panic of a task that had a line pending and a
\* line counted; the other task had run to its end.
C9_Witness ==
    \E f, g \in zstd_files :
        /\ task[f].fault = "decode" /\ mainPc = "panicked"
        /\ task[f].last_matching_line # <<>> /\ task[f].line_counter = 1
        /\ Completed(g) /\ task[g].pc = "ended" /\ task[g].created

\* The entry guard the code takes first.
FirstGuard(f) ==
    IF task[f].metadata = "unreadable" THEN "unreadable"
    ELSE IF input_size[f] = 0 THEN "empty"
    ELSE IF fs0[output_file_path(f)].exists THEN "exists"
    ELSE IF task[f].verify # "ok" THEN "not-zstd"
    ELSE ""

\* The inputs whose task went past line 380.
ProcessedBytes(f) ==
    IF \/ task[f].pc \in {"flush", "last", "cleanup"}
       \/ Returned(f) /\ PassedGuards(f) /\ task[f].fault # "setup"
    THEN task[f].filesize ELSE 0

\* C10: each entry guard (unreadable metadata or empty input, destination
\* exists, signature check fails), taken in that order, ends the task in a
\* skip that returns Ok: nothing created, nothing decoded, nothing added to
\* the decoded-bytes, decoded-lines, kept-lines and processed-bytes
\* counters; the skip does not stop the other tasks or main.
C10_GuardsSkipCleanly ==
    /\ \A f \in zstd_files :
          task[f].pc # "queued" =>
             /\ task[f].skip = FirstGuard(f)
             /\ task[f].skip # "" =>
                   /\ Returned(f) /\ task[f].result = "Ok"
                   /\ ~task[f].created /\ task[f].lines = <<>>
                   /\ task[f].decompressed_size = 0 /\ task[f].line_counter = 0
                   /\ task[f].line_filtered_counter = 0
                   /\ fs[output_file_path(f)] = fs0[output_file_path(f)]
    /\ global_processed_size = SumOver(ProcessedBytes, zstd_files)
    /\ (\A f \in zstd_files : task[f].pc = "queued" \/ task[f].skip # "") =>
          /\ global_decompressed_size = 0 /\ global_decompressed_lines = 0
          /\ global_filtered_lines = 0 /\ global_processed_size = 0
          /\ mainPc # "panicked"

\* One task skipped at the signature check, the other run to its end with
\* its artifact written, and main past the loop.
C10_Witness ==
    \E f, g \in zstd_files :
        /\ task[f].skip = "not-zstd" /\ task[f].pc = "ended"
        /\ Completed(g) /\ task[g].pc = "ended"
        /\ fs[output_file_path(g)].content = <<"x">>
        /\ global_processed_size = task[g].filesize
        /\ mainPc = "finished"


\* C11: the output is created only once the input's signature is confirmed
\* and its decoder constructed and configured: an input that is rejected
\* (signature check, File::open, Decoder::new, window_log_max) has had no
\* artifact created by its task and leaves its destination as it was.
C11_RejectedLeavesNothing ==
    \A f \in zstd_files :
        (task[f].skip = "not-zstd" \/ task[f].fault = "setup") =>
            /\ ~task[f].created
            /\ fs[output_file_path(f)] = fs0[output_file_path(f)]


C13_InvalidPatternExitsAtStart ==
    /\ ~compiles(cli.pattern) =>
          /\ mainPc \in {"set_config", "exited"}
          /\ poolSize = 0 /\ zstd_files = {}
          /\ \A f \in AllFiles : task[f].pc = "queued"
    /\ \A f \in AllFiles : task[f].fault # "regex"
    /\ mainPc = "exited" => ~compiles(cli.pattern)

C13_Witness ==
    /\ mainPc = "exited" /\ cli.pattern = "("
    /\ poolSize = 0 /\ zstd_files = {}

\* C14: every level handed to an encoder is the configured level when
\* that is in zstd's range and 0 when it is not; a level out of range does
\* not end the program in set_config.
C14_LevelClamped ==
    /\ \A f \in zstd_files :
          \A l \in task[f].levels :
             /\ l \in ZstdMinLevel..ZstdMaxLevel
             /\ l = IF cli.compression_level \in ZstdMinLevel..ZstdMaxLevel
                    THEN cli.compression_level ELSE 0
    /\ compiles(cli.pattern) => mainPc # "exited"

\* A task wrote a frame under a configured level above the range.
C14_Witness ==
    /\ cli.compression_level = ZstdMaxLevel + 1
    /\ \E f \in zstd_files :
          /\ task[f].levels = {0} /\ Completed(f)
          /\ fs[output_file_path(f)].content = EncodeFrame(<<"x">>)


\* main has left the parallel loop for good: the run finished, or a fatal
\* error ended it.
RunEnded == mainPc \in {"finished", "panicked", "aborted"}

\* C15: whatever the size of the pool (threads + 1, or rayon's default,
\* which may be 1), with the progress updater spawned first, every
\* discovered input's task is started or the run is ended by a fatal error,
\* and main leaves the loop: the run ends.
C15_UpdaterNeverStarves ==
    <>(RunEnded /\ (mainPc = "finished" => \A f \in zstd_files : task[f].pc # "queued"))

\* With a worker to spare beside the progress updater the run ends.
SpareWorkerRunEnds == (poolSize >= 2) => <>RunEnded


\* read_lines is between the creation of its output and its return: it
\* holds the file it created.
InSession(f) ==
    task[f].pc \in {"filter", "pub1", "pub2", "pub3", "fin1", "fin2", "fin3",
                    "fin4", "flush", "last", "cleanup"}

\* C16: two tasks never hold the same artifact at once: of two inputs with
\* one destination, the second does not pass the existence check and
\* create (truncate) the file while the first, which created it, is still
\* writing to it.
C16_SingleOwner ==
    \A f, g \in zstd_files :
        (f # g /\ output_file_path(f) = output_file_path(g)
              /\ InSession(f) /\ InSession(g)) =>
            ~(task[f].created /\ task[g].created)


\* C17: an artifact that a task leaves behind, however the task ended
\* (return, error, panic), holds the whole filtered output of what the task
\* decoded: the kept lines joined by separators.
C17_ArtifactsComplete ==
    \A f \in zstd_files :
        (task[f].pc \in {"returned", "ended", "panicked"} /\ task[f].created
              /\ fs[output_file_path(f)].exists) =>
            Decoded(fs[output_file_path(f)].content) = Joined(KeptOf(f))


\* C18: at every tick of the progress updater the processed estimate is at
\* most the total it loaded at that tick, so the subtraction of line 561
\* neither wraps nor panics.
C18_EstimateWithinTotal ==
    est.ticked =>
        /\ est.processed_size_estimate <= est.global_to_be_processed_size
        /\ est.pc # "panicked"
        /\ est.remaining = est.global_to_be_processed_size - est.processed_size_estimate


\* C19: once every task has ended and no fatal error occurred, what was
\* reserved at discovery has been processed or released: the processed
\* bytes equal the total to process.
C19_ReservationSettled ==
    (AllEnded /\ mainPc \in {"dispatch", "sleep", "finished"}) =>
        global_processed_size = global_to_be_processed_size

\* Each line but the last, followed by a separator.
RECURSIVE EarlierBytes(_)
EarlierBytes(ls) ==
    IF Len(ls) <= 1 THEN <<>>
    ELSE Head(ls) \o <<"\n">> \o EarlierBytes(Tail(ls))

\* read_lines is in its loop, or past it and before the write of line 389.
BeforeLastWrite(f) ==
    task[f].pc \in {"filter", "pub1", "pub2", "pub3", "fin1", "fin2", "fin3",
                    "fin4", "flush", "last"}

\* C20: while a task filters with writing enabled there is at most one
\* pending line; once a line was kept the pending line is the last kept
\* one, and the bytes written and buffered so far are the earlier kept
\* lines, in order, each with one separator: the pending line reaches the
\* buffer, with a separator, only when a newer line is kept, and the output,
\* without one, only after the end of the stream.
C20_PendingLine ==
    \A f \in zstd_files :
        (BeforeLastWrite(f) /\ ~config.no_write) =>
            /\ Len(task[f].last_matching_line) <= 1
            /\ KeptOf(f) = <<>> =>
                  task[f].last_matching_line = <<>> /\ task[f].emitted \o task[f].buffer = <<>>
            /\ KeptOf(f) # <<>> =>
                  /\ task[f].last_matching_line = <<KeptOf(f)[Len(KeptOf(f))]>>
                  /\ task[f].emitted \o task[f].buffer = EarlierBytes(KeptOf(f))

\* In the loop after three kept lines: the first two were promoted and
\* flushed, each with its separator, the third is pending.
C20_Witness ==
    \E f \in zstd_files :
        /\ task[f].pc = "filter" /\ ~config.no_write /\ task[f].writer
        /\ KeptOf(f) = <<<<"x">>, <<"a", "x">>, <<"x">>>>
        /\ task[f].last_matching_line = <<<<"x">>>>
        /\ task[f].buffer = <<>>
        /\ task[f].emitted = <<"x", Sep, "a", "x", Sep>>


\* The longest kept line among the lines a task has decoded.
MaxKeptLen(f) ==
    LET ks == KeptOf(f) IN
    IF ks = <<>> THEN 0
    ELSE CHOOSE n \in {Len(ks[i]) : i \in DOMAIN ks} :
             \A i \in DOMAIN ks : Len(ks[i]) <= n

\* read_lines has passed a whole line through the loop body, or is past
\* the loop.
LineHandled(f) == InSession(f) \/ Returned(f)

\* The buffer stays below a positive threshold between lines, and never
\* holds more than the threshold less one, a kept line and a separator.
BufferBounded(f) ==
    config.buffer > 0 =>
        /\ LineHandled(f) => Len(task[f].buffer) < config.buffer
        /\ Len(task[f].buffer) <= (config.buffer - 1) + MaxKeptLen(f) + 1

\* A step that hands bytes to write_to_output (flush_buffer, or the write
\* of the pending line, which follows the residual flush) leaves the buffer
\* empty.
FlushEmpties ==
    \A f \in zstd_files :
        task'[f].emitted # task[f].emitted => task'[f].buffer = <<>>

\* C21, as stated: for a positive threshold T the buffer is shorter than T
\* once a decoded line has been handled, never longer than T - 1 plus a kept
\* line plus a separator, and empty when the task ends, however it ends
\* (the panic of a failed threshold flush set aside: a decode error and a
\* failed residual flush end the task as well).
C21_BufferEmptyAtAnyEnd ==
    \A f \in zstd_files :
        /\ BufferBounded(f)
        /\ (config.buffer > 0 /\ task[f].pc \in {"returned", "ended", "panicked"}
                /\ task[f].fault # "threshold flush")
              => task[f].buffer = <<>>

\* C21, as the code has it: the bounds hold, every flush that succeeds
\* leaves the buffer empty, and the buffer is empty once the residual flush
\* is past and when read_lines returns Ok; a task that ends on a decode
\* error, on a failed threshold flush (both panics) or on a failed residual
\* flush (an error returned) ends with what it had buffered.
C21_BufferBelowThreshold ==
    /\ [](\A f \in zstd_files :
             /\ BufferBounded(f)
             /\ (task[f].pc \in {"last", "cleanup"}
                    \/ (Returned(f) /\ task[f].result = "Ok"))
                   => task[f].buffer = <<>>
             /\ (task[f].pc \in {"returned", "ended", "panicked"}
                    /\ task[f].buffer # <<>>)
                   => task[f].fault \in {"decode", "threshold flush", "residual flush"})
    /\ [][FlushEmpties]_vars

\* Threshold 2: the buffer held one separator (below 2) after the second
\* line, and the third kept line took it to 3 = (2 - 1) + 1 + 1, the most
\* the bound allows, which was flushed in the same pass.
C21_Witness ==
    \E f \in zstd_files :
        /\ config.buffer = 2 /\ task[f].writer /\ task[f].pc = "filter"
        /\ task[f].lines = <<<<>>, <<"a">>, <<"a">>>>
        /\ config.pattern = "^"
        /\ task[f].emitted = <<Sep, "a", Sep>>
        /\ task[f].buffer = <<>>


\* A step of the progress updater's loop: the updater runs and its locals
\* change.
IsTick == est.pc = "running" /\ est' # est

\* Lines 551-556 on the value loaded at line 509.
TickRule ==
    IsTick =>
        /\ est'.last_accurate_proc_size = global_processed_size
        /\ IF global_processed_size # est.last_accurate_proc_size
           THEN est'.processed_size_estimate = global_processed_size
           ELSE /\ est'.last_accurate_proc_size = est.last_accurate_proc_size
                /\ est'.processed_size_estimate =
                      est.processed_size_estimate + est'.disk_usage_reads

\* C22: at every tick, when the processed bytes it loaded differ from the
\* anchor, the anchor and the estimate both become the loaded value;
\* otherwise the anchor stays and the estimate grows by the bytes read from
\* disk since the previous sample.  So after every tick the anchor is the
\* value loaded in the tick, and the estimate is never below the anchor.
C22_AnchorAndEstimate ==
    /\ [](est.processed_size_estimate >= est.last_accurate_proc_size)
    /\ [][TickRule]_vars

\* The updater anchored at the two bytes of the finished input, and a later
\* tick added two bytes read from disk.
C22_Witness ==
    /\ est.ticked /\ est.pc = "running"
    /\ global_processed_size = 2
    /\ est.last_accurate_proc_size = 2
    /\ est.processed_size_estimate = 4
    /\ est.disk_usage_reads = 2


\* The progress updater has left its loop: through the break of line 632,
\* or through the panic of line 561.
UpdaterStopped == est.pc \in {"exited", "panicked"}

\* C23: the progress updater ticks on while the run is not finished and
\* leaves its loop only once the progress bar is marked finished (line 631,
\* after main's pb.finish()); it never stops while a task is running.
C23_UpdaterStopsAfterFinish ==
    /\ est.pc = "exited" => pbFinished
    /\ UpdaterStopped => \A f \in zstd_files : ~Running(f)

\* Without the panic of line 561 the claim's safety part holds: the break
\* is taken only with the progress bar finished, when every task has ended.
UpdaterBreaksAfterFinish ==
    est.pc = "exited" => (pbFinished /\ \A f \in zstd_files : task[f].pc = "ended")


\* C24: a tick of the progress updater leaves the five shared counters as
\* they are (it loads them, lines 506-510, and computes on the copies);
\* a step that changes a counter is a step of a task, the total having been
\* reserved by main before the tasks began.
C24_TickReadsOnly ==
    [][/\ IsTick => UNCHANGED counterVars
       /\ counterVars' # counterVars =>
             /\ est' = est
             /\ \E f \in zstd_files : task'[f] # task[f]
      ]_vars

\* The updater ticked after the task had published its counts: it anchored
\* at the processed bytes, and the counters are what the task made them.
C24_Witness ==
    /\ est.ticked /\ est.pc = "running"
    /\ global_processed_size = 2 /\ est.last_accurate_proc_size = 2
    /\ est.processed_size_estimate = 2
    /\ global_decompressed_size = 2 /\ global_decompressed_lines = 2
    /\ global_filtered_lines = 2
    /\ global_to_be_processed_size = 2


\* The inputs whose closure has run to its end (read_lines returned and
\* pb.inc was called).
EndedTasks == {f \in zstd_files : task[f].pc = "ended"}

\* for_each calls its closure once for an input: a task that was started is
\* not started again, and one that has ended stays ended.
OneTaskPerInput ==
    \A f \in zstd_files :
        /\ task[f].pc # "queued" => task'[f].pc # "queued"
        /\ task[f].pc = "ended" => task'[f] = task[f]

\* pb.inc(1) is called as a closure ends, and only then.
OneIncPerInput ==
    /\ pbPos' \in {pbPos, pbPos + 1}
    /\ pbPos' = pbPos + 1 <=>
          \E f \in zstd_files :
             /\ task[f].pc = "returned" /\ task'[f].pc = "ended"
             /\ \A g \in zstd_files \ {f} : task'[g] = task[g]

\* C25: each discovered input has one task, started at most once, and the
\* position of the progress bar goes up by one, once, as the input's
\* read_lines returns, whether the task ran to its end, was skipped or
\* returned an error; when main is past for_each (no panic unwound it) the
\* position is the number of discovered inputs and every task has ended.
C25_OneIncPerInput ==
    /\ [](/\ pbPos = Cardinality(EndedTasks)
          /\ \A f \in AllFiles \ zstd_files : task[f].pc = "queued"
          /\ mainPc \in {"sleep", "finished"} =>
                /\ pbPos = Cardinality(zstd_files)
                /\ EndedTasks = zstd_files)
    /\ [][OneTaskPerInput /\ OneIncPerInput]_vars

\* main is past the loop with both inputs counted: the task of one returned
\* the error of its decoder set-up, the other was skipped as empty.
C25_Witness ==
    \E f, g \in zstd_files :
        /\ mainPc = "finished" /\ pbPos = 2
        /\ task[f].result = "Err" /\ task[f].fault = "setup"
        /\ task[g].skip = "empty" /\ task[g].result = "Ok"

=============================================================================
